---- MODULE Spec2Model ----
(***************************************************************************)
(* Model of scripts/bd_board.py: build_tree (the Tree Builder) and         *)
(* render_children / main's rendering loop (the Tree Renderer).            *)
(*                                                                         *)
(* Issue ids are strings in the program; here they are naturals, and the   *)
(* order on naturals stands for the lexicographic order on the strings.    *)
(* A missing "priority" key is the empty sequence, a present one <<p>>.    *)
(* The box-drawing glyphs are written in ASCII:                            *)
(*     CORNER  "+-- "  for  U+2514 U+2500 U+2500 space                     *)
(*     TEE     "|-- "  for  U+251C U+2500 U+2500 space                     *)
(*     BAR     "|   "  for  U+2502 and three spaces                        *)
(*     BLANK   "    "  four spaces                                         *)
(* A prefix or an indent is the sequence of its four-character segments.   *)
(***************************************************************************)
EXTENDS Integers, Sequences, FiniteSets, TLC

VARIABLES issues, pc, lookup, child_map, top_level, ti, out

vars == <<issues, pc, lookup, child_map, top_level, ti, out>>

\* ---------------------------------------------------------------- bounds
\* most records in one batch
MaxIssues == 3
\* most relationship entries (dependents + dependencies) in one batch
MaxRefs == 3

\* ------------------------------------------------------ program constants
DefaultPriority == 2

CORNER == "+-- "
TEE == "|-- "
BAR == "|   "
BLANK == "    "

\* --------------------------------------------------------------- inputs
\* Ids that can be referenced; a batch holds records for some of them, the
\* others are dangling references.
Ids == 0..MaxIssues

IssueTypes == {"epic", "task"}
Priorities == {<<>>, <<1>>, <<3>>}
DependencyTypes == {"parent-child", "blocks"}

\* A dependencies entry names its parent and its type; the id of an entry
\* that is not "parent-child" is never read (the test on the type comes
\* first), so those entries all name id 1.
DepEntries ==
    [id : Ids, dependency_type : {"parent-child"}]
        \cup [id : {1}, dependency_type : DependencyTypes \ {"parent-child"}]

SeqsOfLen(S, n) == [1..n -> S]

\* issues is a batch that starts with prefix and goes on with records of ids
\* next..n, in that order, holding at most r relationship entries in all
RECURSIVE TreeBatch(_, _, _, _)
TreeBatch(prefix, next, n, r) ==
    IF next > n THEN issues = prefix
    ELSE \E k \in 0..r : \E d \in 0..k :
            \E dependents \in SeqsOfLen(Ids, d) :
               \E dependencies \in SeqsOfLen(DepEntries, k - d) :
                  TreeBatch(Append(prefix,
                                   [id |-> next, issue_type |-> "task", priority |-> <<>>,
                                    dependents |-> dependents,
                                    dependencies |-> dependencies]),
                            next + 1, n, r - k)

\* batches with relationships: every record a task without a priority
TreeBatches == \E n \in 0..MaxIssues : TreeBatch(<<>>, 1, n, MaxRefs)

Perms(S) == { f \in [1..Cardinality(S) -> S] : \A i, j \in DOMAIN f : i # j => f[i] # f[j] }

\* batches without relationships, in any order, of any type and priority
SortBatches ==
    \E S \in SUBSET (1..MaxIssues) : \E order \in Perms(S) :
       \E a \in [1..Len(order) -> IssueTypes \X Priorities] :
          issues = [k \in 1..Len(order) |->
                      [id |-> order[k], issue_type |-> a[k][1], priority |-> a[k][2],
                       dependents |-> <<>>, dependencies |-> <<>>]]

\* -------------------------------------------------------------- helpers
Range(s) == { s[k] : k \in DOMAIN s }

EmptyMap == <<>>

\* dict.get(key, default) on a mapping to lists
MapGet(m, key) == IF key \in DOMAIN m THEN m[key] ELSE <<>>

\* ----------------------------------------------------------- build_tree
\* lookup = {issue["id"]: issue for issue in issues}: the last record wins
build_lookup(iss) ==
    [id \in { iss[k].id : k \in DOMAIN iss } |->
        iss[CHOOSE k \in DOMAIN iss :
               iss[k].id = id /\ \A j \in DOMAIN iss : j > k => iss[j].id # id]]

\* if parent_id not in child_map: child_map[parent_id] = []
ensure_entry(cm, parent_id) ==
    IF parent_id \in DOMAIN cm THEN cm ELSE cm @@ (parent_id :> <<>>)

\* child_map[parent_id].append(child_id)
append_child(cm, parent_id, child_id) ==
    [cm EXCEPT ![parent_id] = Append(@, child_id)]

\* the inner loop over one record's dependents, from entry j on
RECURSIVE add_dependents(_, _, _, _)
add_dependents(acc, parent_id, dependents, j) ==
    IF j > Len(dependents) THEN acc
    ELSE add_dependents(
            [child_map |-> append_child(ensure_entry(acc.child_map, parent_id),
                                        parent_id, dependents[j]),
             child_ids_set |-> acc.child_ids_set \cup { dependents[j] }],
            parent_id, dependents, j + 1)

\* the first loop over the batch, from record k on
RECURSIVE process_dependents(_, _, _)
process_dependents(acc, iss, k) ==
    IF k > Len(iss) THEN acc
    ELSE process_dependents(add_dependents(acc, iss[k].id, iss[k].dependents, 1),
                            iss, k + 1)

\* mutant: the test on dependency_type is dropped
any_dependency(dep) == TRUE

\* dep.get("dependency_type") == "parent-child"
is_parent_child(dep) == dep.dependency_type = "parent-child"

\* mutant: the "avoid duplicates" test is dropped
always_append(cm, parent_id, child_id) == TRUE

\* child_id not in child_map[parent_id]
not_yet_child(cm, parent_id, child_id) == child_id \notin Range(cm[parent_id])

\* the body of the second loop for one dependencies entry
add_dependency(acc, child_id, dep) ==
    IF is_parent_child(dep)
    THEN LET cm == ensure_entry(acc.child_map, dep.id)
         IN  [child_map |-> IF not_yet_child(cm, dep.id, child_id)
                            THEN append_child(cm, dep.id, child_id)
                            ELSE cm,
              child_ids_set |-> acc.child_ids_set \cup { child_id }]
    ELSE acc

RECURSIVE add_dependencies(_, _, _, _)
add_dependencies(acc, child_id, dependencies, j) ==
    IF j > Len(dependencies) THEN acc
    ELSE add_dependencies(add_dependency(acc, child_id, dependencies[j]),
                          child_id, dependencies, j + 1)

\* the second loop over the batch, from record k on
RECURSIVE process_dependencies(_, _, _)
process_dependencies(acc, iss, k) ==
    IF k > Len(iss) THEN acc
    ELSE process_dependencies(add_dependencies(acc, iss[k].id, iss[k].dependencies, 1),
                              iss, k + 1)

\* issue.get("priority", 2)
get_priority(issue) ==
    IF issue.priority = <<>> THEN DefaultPriority ELSE issue.priority[1]

\* mutant: the key leaves the epic flag out
sort_key_no_epic(lk, issue_id) ==
    << 0, get_priority(lk[issue_id]), issue_id >>

\* sort_key: (is_epic, priority, issue_id)
sort_key(lk, issue_id) ==
    << IF lk[issue_id].issue_type = "epic" THEN 0 ELSE 1,
       get_priority(lk[issue_id]),
       issue_id >>

\* Python's order on tuples of three integers
key_less(a, b) ==
    \/ a[1] < b[1]
    \/ a[1] = b[1] /\ a[2] < b[2]
    \/ a[1] = b[1] /\ a[2] = b[2] /\ a[3] < b[3]

\* insert x into the sorted sequence s, after every element that is not greater
RECURSIVE insert_sorted(_, _, _)
insert_sorted(lk, s, x) ==
    IF s = <<>> THEN << x >>
    ELSE IF key_less(sort_key(lk, x), sort_key(lk, Head(s)))
         THEN << x >> \o s
         ELSE << Head(s) >> \o insert_sorted(lk, Tail(s), x)

\* list.sort(key=sort_key): a stable sort
RECURSIVE sort_by_key(_, _)
sort_by_key(lk, s) ==
    IF s = <<>> THEN <<>>
    ELSE insert_sorted(lk, sort_by_key(lk, SubSeq(s, 1, Len(s) - 1)), s[Len(s)])

\* [issue["id"] for issue in issues if issue["id"] not in child_ids_set]
RECURSIVE not_children(_, _, _)
not_children(iss, child_ids_set, k) ==
    IF k > Len(iss) THEN <<>>
    ELSE (IF iss[k].id \notin child_ids_set THEN << iss[k].id >> ELSE <<>>)
         \o not_children(iss, child_ids_set, k + 1)

build_tree(iss) ==
    LET lk == build_lookup(iss)
        a1 == process_dependents([child_map |-> EmptyMap, child_ids_set |-> {}], iss, 1)
        a2 == process_dependencies(a1, iss, 1)
    IN  [top_level |-> sort_by_key(lk, not_children(iss, a2.child_ids_set, 1)),
         child_map |-> a2.child_map,
         lookup |-> lk]

\* ------------------------------------------------------ render_children
\* The interpreter's recursion limit: deeper than any traversal of an
\* acyclic batch, whose nesting is at most one call per record plus one.
RecursionLimit == MaxIssues + 2

\* is_last = (i == total - 1), with indices counted from 1
is_last(i, total) == i = total

\* branch = corner if is_last else tee
branch(last) == IF last THEN CORNER ELSE TEE

\* mutant: the two continuations are swapped
next_indent_swapped(indent, last) == Append(indent, IF last THEN BAR ELSE BLANK)

\* next_indent = indent + blank if is_last else indent + bar
next_indent(indent, last) == Append(indent, IF last THEN BLANK ELSE BAR)

\* mutant: the test for a missing record is dropped
never_skip(lk, child_id) == FALSE

\* child_id not in lookup
skip_child(lk, child_id) == child_id \notin DOMAIN lk

\* print_issue(lookup[id], prefix): the line's prefix and the issue it shows;
\* path is the position of the call that printed it (the index in top_level,
\* then the index i of each enclosing loop iteration).
print_issue(issue, prefix, path) ==
    [id |-> issue.id, prefix |-> prefix, path |-> path]

\* mutant: a child's line is printed after its subtree
RECURSIVE render_from_postorder(_, _, _, _, _, _, _)
render_from_postorder(parent_id, cm, lk, indent, path, depth, i) ==
    LET children == MapGet(cm, parent_id)
        total == Len(children)
    IN  IF depth > RecursionLimit THEN [lines |-> <<>>, err |-> "RecursionError"]
        ELSE IF i > total THEN [lines |-> <<>>, err |-> "none"]
        ELSE IF skip_child(lk, children[i])
             THEN render_from_postorder(parent_id, cm, lk, indent, path, depth, i + 1)
        ELSE LET last == is_last(i, total)
                 line == print_issue(lk[children[i]], Append(indent, branch(last)),
                                     Append(path, i))
                 sub  == render_from_postorder(children[i], cm, lk,
                                               next_indent(indent, last),
                                               Append(path, i), depth + 1, 1)
             IN  IF sub.err # "none"
                 THEN [lines |-> sub.lines \o << line >>, err |-> sub.err]
                 ELSE LET rest == render_from_postorder(parent_id, cm, lk, indent, path,
                                                        depth, i + 1)
                      IN  [lines |-> sub.lines \o << line >> \o rest.lines,
                           err |-> rest.err]

\* render_children from child index i on, at nesting depth `depth`.
\* Returns the lines printed and the exception that ended the traversal, if
\* any: "RecursionError" when the nesting passes the recursion limit,
\* "KeyError" when lookup[child_id] is read for an id lookup does not hold.
\* An exception ends the program; the lines printed before it stay printed.
RECURSIVE render_from(_, _, _, _, _, _, _)
render_from(parent_id, cm, lk, indent, path, depth, i) ==
    LET children == MapGet(cm, parent_id)
        total == Len(children)
    IN  IF depth > RecursionLimit THEN [lines |-> <<>>, err |-> "RecursionError"]
        ELSE IF i > total THEN [lines |-> <<>>, err |-> "none"]
        ELSE IF skip_child(lk, children[i])
             THEN render_from(parent_id, cm, lk, indent, path, depth, i + 1)
        ELSE IF children[i] \notin DOMAIN lk THEN [lines |-> <<>>, err |-> "KeyError"]
        ELSE LET last == is_last(i, total)
                 line == print_issue(lk[children[i]], Append(indent, branch(last)),
                                     Append(path, i))
                 sub  == render_from(children[i], cm, lk, next_indent(indent, last),
                                     Append(path, i), depth + 1, 1)
             IN  IF sub.err # "none"
                 THEN [lines |-> << line >> \o sub.lines, err |-> sub.err]
                 ELSE LET rest == render_from(parent_id, cm, lk, indent, path, depth, i + 1)
                      IN  [lines |-> << line >> \o sub.lines \o rest.lines,
                           err |-> rest.err]

render_children(parent_id, cm, lk, indent, path, depth) ==
    render_from(parent_id, cm, lk, indent, path, depth, 1)

\* ------------------------------------------------------------------ main
Init ==
    /\ (TreeBatches \/ SortBatches)
    /\ pc = "start"
    /\ lookup = EmptyMap
    /\ child_map = EmptyMap
    /\ top_level = <<>>
    /\ ti = 1
    /\ out = <<>>

\* if not issues: print("No open issues found."); return
NoIssues ==
    /\ pc = "start"
    /\ issues = <<>>
    /\ pc' = "done"
    /\ UNCHANGED <<issues, lookup, child_map, top_level, ti, out>>

\* top_level, child_map, lookup = build_tree(issues)
BuildTree ==
    /\ pc = "start"
    /\ issues # <<>>
    /\ LET t == build_tree(issues)
       IN  /\ top_level' = t.top_level
           /\ child_map' = t.child_map
           /\ lookup' = t.lookup
    /\ pc' = "render"
    /\ UNCHANGED <<issues, ti, out>>

\* one iteration of "for issue_id in top_level"
RenderTopLevel ==
    /\ pc = "render"
    /\ ti <= Len(top_level)
    /\ LET issue_id == top_level[ti]
       IN  IF issue_id \notin DOMAIN lookup
           THEN /\ out' = out
                /\ pc' = pc
           ELSE LET line == print_issue(lookup[issue_id], <<>>, << ti >>)
                    r == render_children(issue_id, child_map, lookup, <<>>, << ti >>, 1)
                IN  /\ out' = out \o << line >> \o r.lines
                    /\ pc' = IF r.err = "none" THEN "render" ELSE r.err
    /\ ti' = ti + 1
    /\ UNCHANGED <<issues, lookup, child_map, top_level>>

\* the loop is over: main returns
MainReturn ==
    /\ pc = "render"
    /\ ti > Len(top_level)
    /\ pc' = "done"
    /\ UNCHANGED <<issues, lookup, child_map, top_level, ti, out>>

Next == NoIssues \/ BuildTree \/ RenderTopLevel \/ MainReturn

Spec == Init /\ [][Next]_vars

\* ================================================================ claims
\* -------------------------------------------------- vocabulary of claims
\* build_tree has returned
Built == pc # "start"

\* the rendering loop ran to its end without an exception
Rendered == pc = "done"

Count(x, s) == Cardinality({ k \in DOMAIN s : s[k] = x })

Last(s) == s[Len(s)]

Front(s) == SubSeq(s, 1, Len(s) - 1)

IsPrefix(p, q) == Len(p) <= Len(q) /\ SubSeq(q, 1, Len(p)) = p

\* the ids child_map lists under the ids of S
ChildrenOf(S) == UNION { Range(MapGet(child_map, p)) : p \in S }

\* the ids reached from S by one or more child_map edges
RECURSIVE Closure(_, _)
Closure(S, n) == IF n = 0 THEN S ELSE Closure(S \cup ChildrenOf(S), n - 1)

Descendants(S) == Closure(ChildrenOf(S), Cardinality(Ids))

\* the merged parent/child graph has no cycle
Acyclic == \A id \in Ids : id \notin Descendants({ id })

\* the id child_map and top_level put at a position of the traversal
RECURSIVE NodeAt(_)
NodeAt(path) ==
    IF Len(path) = 1 THEN top_level[path[1]]
    ELSE child_map[NodeAt(Front(path))][Last(path)]

\* the lines printed for the children of the line at position path
ChildLines(path) ==
    { k \in DOMAIN out : Len(out[k].path) = Len(path) + 1 /\ IsPrefix(path, out[k].path) }

\* strict order of positions in a pre-order walk: a position precedes its
\* extensions, and otherwise the first differing index decides
PathBefore(p, q) ==
    \/ Len(p) < Len(q) /\ IsPrefix(p, q)
    \/ \E j \in 1..Len(p) :
          /\ j <= Len(q)
          /\ SubSeq(p, 1, j - 1) = SubSeq(q, 1, j - 1)
          /\ p[j] < q[j]

\* ---------------------------------------------------------------- C1
\* C1: on an acyclic batch, once the rendering loop has ended, every id of
\* lookup is printed exactly once over the top-level lines and all
\* render_children traversals.
C1_Coverage ==
    (Rendered /\ Acyclic) =>
        \A id \in DOMAIN lookup :
            Cardinality({ k \in DOMAIN out : out[k].id = id }) = 1

\* ---------------------------------------------------------------- C2
\* C2: render_children guards against revisiting an ancestor, so no
\* traversal, cyclic graph or not, runs into unbounded recursion.
C2_TerminatesUnderCycles ==
    /\ pc # "RecursionError"
    /\ \A k \in DOMAIN out :
          \A j \in 1..(Len(out[k].path) - 1) :
              NodeAt(SubSeq(out[k].path, 1, j)) # out[k].id

\* ---------------------------------------------------------------- C3
\* C3: in top_level every epic precedes every non-epic; within a group the
\* priorities ascend, a missing priority counting as 2; ids with equal group
\* and priority ascend.
C3_SortProperty ==
    Built =>
        \A i, j \in DOMAIN top_level :
            i < j =>
                LET a == lookup[top_level[i]]
                    b == lookup[top_level[j]]
                    pa == IF a.priority = <<>> THEN 2 ELSE a.priority[1]
                    pb == IF b.priority = <<>> THEN 2 ELSE b.priority[1]
                    sameGroup == (a.issue_type = "epic") <=> (b.issue_type = "epic")
                IN  /\ b.issue_type = "epic" => a.issue_type = "epic"
                    /\ sameGroup => pa <= pb
                    /\ (sameGroup /\ pa = pb) => a.id < b.id

\* an epic with a worse priority sorted before a task, a record without
\* priority sorted between priorities 1 and 3, and a tie decided by id
C3_Witness ==
    /\ Built
    /\ \E i, j \in DOMAIN top_level :
          /\ i < j
          /\ lookup[top_level[i]].issue_type = "epic"
          /\ lookup[top_level[i]].priority = <<3>>
          /\ lookup[top_level[j]].issue_type = "task"
          /\ lookup[top_level[j]].priority = <<>>
    /\ \E i, j \in DOMAIN top_level :
          /\ i < j
          /\ lookup[top_level[i]].issue_type = lookup[top_level[j]].issue_type
          /\ lookup[top_level[i]].priority = lookup[top_level[j]].priority
    /\ \E k \in DOMAIN issues : k < Len(issues) /\ issues[k].id > issues[k + 1].id

\* ---------------------------------------------------------------- C4
\* C4: for every rendered parent whose child_map entry has N >= 1 children,
\* exactly one child line carries the corner connector, the one of the last
\* child in list order, and every other child line carries the tee. (Stated
\* for the parents below which a line is printed at all, child ids without
\* records included in N.)
C4_Connector ==
    Rendered =>
        \A k \in DOMAIN out :
            LET N == Len(MapGet(child_map, out[k].id))
            IN  ChildLines(out[k].path) # {} =>
                  /\ \E c \in ChildLines(out[k].path) :
                        /\ Last(out[c].path) = N
                        /\ Last(out[c].prefix) = CORNER
                  /\ \A c \in ChildLines(out[k].path) :
                        Last(out[c].path) # N => Last(out[c].prefix) = TEE

\* ---------------------------------------------------------------- C5
\* C5 as stated: an edge declared both in the parent's dependents and in the
\* child's dependencies puts the child twice into child_map[parent].
C5_DuplicateEdgeTwice ==
    Built =>
        \A p, c \in DOMAIN lookup :
            ( /\ p # c
              /\ Count(c, lookup[p].dependents) = 1
              /\ \E d \in Range(lookup[c].dependencies) :
                    d.id = p /\ d.dependency_type = "parent-child" )
            => Count(c, child_map[p]) = 2

\* C5 amended: such an edge puts the child into child_map[parent] exactly as
\* often as the parent's dependents lists it (once when listed once); the
\* dependencies entry adds no further occurrence.
C5_DuplicateEdgeOnce ==
    Built =>
        \A p, c \in DOMAIN lookup :
            ( /\ Count(c, lookup[p].dependents) >= 1
              /\ \E d \in Range(lookup[c].dependencies) :
                    d.id = p /\ d.dependency_type = "parent-child" )
            => Count(c, child_map[p]) = Count(c, lookup[p].dependents)

\* the edge 1 -> 2 is declared from both sides
C5_Witness ==
    /\ Built
    /\ \E p, c \in DOMAIN lookup :
          /\ p # c
          /\ Count(c, lookup[p].dependents) = 1
          /\ \E d \in Range(lookup[c].dependencies) :
                d.id = p /\ d.dependency_type = "parent-child"
          /\ Count(c, child_map[p]) = 1

\* ---------------------------------------------------------------- C6
\* C6: c is listed in child_map[p] only if p's dependents holds c or c's
\* dependencies holds a "parent-child" entry naming p; and a record that is
\* in no dependents list and has no "parent-child" entry stays in top_level.
C6_OnlyParentChildMakesEdges ==
    Built =>
        /\ \A p \in DOMAIN child_map : \A c \in Range(child_map[p]) :
              \/ p \in DOMAIN lookup /\ c \in Range(lookup[p].dependents)
              \/ /\ c \in DOMAIN lookup
                 /\ \E d \in Range(lookup[c].dependencies) :
                       d.id = p /\ d.dependency_type = "parent-child"
        /\ \A c \in DOMAIN lookup :
              ( /\ \A p \in DOMAIN lookup : c \notin Range(lookup[p].dependents)
                /\ \A d \in Range(lookup[c].dependencies) :
                      d.dependency_type # "parent-child" )
              => c \in Range(top_level)

\* a record whose only relationship is a "blocks" entry naming another
\* record of the batch: it is top-level and not that record's child
C6_Witness ==
    /\ Built
    /\ \E c \in DOMAIN lookup :
          /\ lookup[c].dependencies # <<>>
          /\ \A d \in Range(lookup[c].dependencies) :
                d.dependency_type = "blocks" /\ d.id \in DOMAIN lookup /\ d.id # c
          /\ c \in Range(top_level)
          /\ \A p \in DOMAIN child_map : c \notin Range(child_map[p])

\* ---------------------------------------------------------------- C7
\* C7: on an acyclic batch every id of lookup is in top_level or reachable
\* from a top_level id along child_map edges.
C7_Reachability ==
    (Built /\ Acyclic) =>
        \A id \in DOMAIN lookup :
            id \in Range(top_level) \cup Descendants(Range(top_level))

\* ---------------------------------------------------------------- C8
\* C8: the lines come in pre-order: every line but the first follows a line
\* that precedes it in the walk (so a node precedes its descendants, a
\* subtree is contiguous and siblings keep their index order), the line of
\* its parent is printed before it, and it shows the id child_map lists at
\* its index under that parent.
C8_PreOrder ==
    \A k \in DOMAIN out :
        /\ k > 1 => PathBefore(out[k - 1].path, out[k].path)
        /\ Len(out[k].path) = 1 => out[k].id = top_level[out[k].path[1]]
        /\ Len(out[k].path) > 1 =>
              \E j \in 1..(k - 1) :
                  /\ out[j].path = Front(out[k].path)
                  /\ Last(out[k].path) \in DOMAIN MapGet(child_map, out[j].id)
                  /\ out[k].id = child_map[out[j].id][Last(out[k].path)]

\* a grandchild is printed between its parent and its parent's next sibling
C8_Witness ==
    /\ Rendered
    /\ Acyclic
    /\ \E k \in DOMAIN out :
          /\ k + 2 \in DOMAIN out
          /\ Len(out[k].path) = 2
          /\ Len(out[k + 1].path) = 3
          /\ Len(out[k + 2].path) = 2

\* ---------------------------------------------------------------- C9
\* C9: a child id without a record stays in child_map; the renderer prints
\* no line for it and nothing below it, raises nothing, and prints the
\* siblings that have records.
C9_MissingRecordSkipped ==
    /\ pc # "KeyError"
    /\ Built =>
          \A p \in DOMAIN lookup : \A c \in Range(lookup[p].dependents) :
              c \in Range(MapGet(child_map, p))
    /\ \A k \in DOMAIN out : out[k].id \in DOMAIN lookup
    /\ Rendered =>
          \A k \in DOMAIN out :
              LET children == MapGet(child_map, out[k].id)
              IN  \A i \in DOMAIN children :
                    IF children[i] \in DOMAIN lookup
                    THEN \E c \in ChildLines(out[k].path) : Last(out[c].path) = i
                    ELSE \A c \in DOMAIN out :
                            ~ IsPrefix(Append(out[k].path, i), out[c].path)

\* a parent lists a child without a record, which itself has a child_map
\* entry, before a child with a record, and that sibling is printed
C9_Witness ==
    /\ Rendered
    /\ \E k \in DOMAIN out :
          LET children == MapGet(child_map, out[k].id)
          IN  \E i, j \in DOMAIN children :
                /\ i < j
                /\ children[i] \notin DOMAIN lookup
                /\ children[i] \in DOMAIN child_map
                /\ children[j] \in DOMAIN lookup
                /\ \E c \in ChildLines(out[k].path) : Last(out[c].path) = j

\* --------------------------------------------------------------- C10
\* C10: the prefix of a line at depth d >= 1 is d - 1 indent segments and a
\* connector; the segment of the ancestor at depth j is blank if that
\* ancestor is at the last index of its parent's child_map list, a bar
\* otherwise.
C10_IndentComposition ==
    \A k \in DOMAIN out :
        LET path == out[k].path
            d == Len(path) - 1
        IN  /\ Len(out[k].prefix) = d
            /\ \A j \in 1..(d - 1) :
                  out[k].prefix[j] =
                     IF path[j + 1] = Len(child_map[NodeAt(SubSeq(path, 1, j))])
                     THEN BLANK ELSE BAR
            /\ d >= 1 => out[k].prefix[d] \in { CORNER, TEE }

\* one line below a child that is not last and one below a last child
C10_Witness ==
    /\ Rendered
    /\ \E k \in DOMAIN out :
          Len(out[k].prefix) = 2 /\ out[k].prefix[1] = BAR
    /\ \E k \in DOMAIN out :
          Len(out[k].prefix) = 2 /\ out[k].prefix[1] = BLANK

====
